---------------------------- MODULE Spec2Model ----------------------------
(***************************************************************************)
(* Model of the rating-aggregation engine of backend/platform.py:          *)
(* Platform, User and UnifiedRankingSystem.                                *)
(*                                                                         *)
(* Numbers.  Python floats are modelled as fixed-point integers: a real    *)
(* value v is the integer v * SCALE, and every division rounds down.       *)
(* Ratings, difficulties and max_rating arrive as native integers and are  *)
(* converted where the code first divides or averages them.                *)
(* Optional values (None or a value) are sequences: <<>> is None, <<v>> a  *)
(* value.                                                                  *)
(* The rounding of binary floating point, which fixed point cannot show,   *)
(* is modelled for the weighted mean of _update_all_ratings in the section *)
(* on floating point; its state is the variable fp, None in the            *)
(* specifications of the engine.                                           *)
(* Time.  datetime.now() is the variable now, counted in ticks of          *)
(* 1/TicksPerDay day since Init (the code uses only differences of clock   *)
(* readings); timedelta.days is the whole number of days.  Every call      *)
(* takes one tick, and time also passes between calls (Tick).              *)
(***************************************************************************)
EXTENDS Integers, Sequences, FiniteSets, TLC

VARIABLES platforms, users, user_order, raw_weights, softmax_weights,
          final_weights, now, call, fp

vars == <<platforms, users, user_order, raw_weights, softmax_weights,
          final_weights, now, call, fp>>

\* The engine state of one UnifiedRankingSystem instance.
engine == <<platforms, users, user_order, raw_weights, softmax_weights,
            final_weights>>

----------------------------------------------------------------------------
\* Bounds of the model.
SCALE == 1000
MaxTime == 3
MaxTopN == 1
MaxHistory == 5
Precision == 6
GridBits == 12

\* Units of the clock.
TicksPerDay == 2

\* Inputs.
PlatformNames == {"A", "B", "C"}
UserIds == {"u1", "u2"}
\* The ceiling each platform is registered with: add_platform(name, max_rating).
Registrations == {<<"A", 4>>, <<"B", 2>>, <<"C", 4>>}
\* (difficulty, participation) pairs reported by a caller.
Contests == {<<2, SCALE \div 2>>, <<6, (8 * SCALE) \div 10>>}

None == <<>>
Some(v) == <<v>>
IsNone(o) == o = <<>>
Val(o) == o[1]

\* Constructor defaults of UnifiedRankingSystem.
alpha == (5 * SCALE) \div 10
beta == (3 * SCALE) \div 10
gamma == (2 * SCALE) \div 10
decay_lambda == SCALE \div 100

----------------------------------------------------------------------------
\* Arithmetic.
RECURSIVE SumSeq(_)
SumSeq(s) == IF s = <<>> THEN 0 ELSE Head(s) + SumSeq(Tail(s))

RECURSIVE SumFn(_, _)
SumFn(f, S) ==
    IF S = {} THEN 0
    ELSE LET x == CHOOSE y \in S : TRUE IN f[x] + SumFn(f, S \ {x})

Abs(x) == IF x < 0 THEN -x ELSE x
Min(a, b) == IF a < b THEN a ELSE b
Max(a, b) == IF a > b THEN a ELSE b

\* np.mean of a non-empty list of fixed-point values.
Mean(s) == SumSeq(s) \div Len(s)

\* The native integers of a list, as fixed-point values.
ToFx(s) == [i \in 1..Len(s) |-> s[i] * SCALE]

\* s[-n:] of Python.
LastN(s, n) == SubSeq(s, Max(1, Len(s) - n + 1), Len(s))

\* math.exp at the model's precision: the power series, term by term,
\* until a term rounds to 0.
RECURSIVE ExpSeries(_, _, _)
ExpSeries(x, k, term) ==
    IF term = 0 THEN 0
    ELSE term + ExpSeries(x, k + 1, (term * x) \div (k * SCALE))

MathExp(x) ==
    IF x >= 0 THEN ExpSeries(x, 1, SCALE)
    ELSE (SCALE * SCALE) \div ExpSeries(-x, 1, SCALE)

\* timedelta.days of (t1 - t0).
Days(t1, t0) == (t1 - t0) \div TicksPerDay

----------------------------------------------------------------------------
\* current_ratings: a dict, here the list of its (user_id, rating) items.
RatingItems == {<<"u1", 1>>, <<"u1", 3>>, <<"u2", 3>>}
CurrentRatings ==
    {<<>>} \cup {<<a>> : a \in RatingItems}
           \cup {s \in RatingItems \X RatingItems : s[1][1] = "u1" /\ s[2][1] = "u2"}

CrValues(cr) == [i \in 1..Len(cr) |-> cr[i][2]]
CrKeys(cr) == {cr[i][1] : i \in 1..Len(cr)}
CrGet(cr, u) == cr[CHOOSE i \in 1..Len(cr) : cr[i][1] = u][2]

----------------------------------------------------------------------------
\* class Platform
NewPlatform(name, max_rating) ==
    [name |-> name,
     max_rating |-> max_rating,
     difficulty |-> None,
     participation |-> None,
     drift |-> None,
     last_update |-> None,
     user_ratings |-> << >>,
     historical_stats |-> << >>]

\* Mutant of calculate_drift: an empty current_ratings counts as an average
\* of 0 instead of ending the computation.
calculate_drift_empty_as_zero(p, current_ratings) ==
    IF p.historical_stats = <<>> THEN 0
    ELSE LET hist_avg ==
                 Mean([i \in 1..Len(LastN(p.historical_stats, 5)) |->
                          LastN(p.historical_stats, 5)[i].avg_rating])
             current_avg == IF current_ratings = <<>> THEN 0
                            ELSE Mean(ToFx(CrValues(current_ratings)))
         IN  Abs(current_avg - hist_avg) \div p.max_rating

\* Mutant of calculate_drift: the baseline is the mean over the whole
\* history, not over its last 5 snapshots.
calculate_drift_whole_history(p, current_ratings) ==
    IF p.historical_stats = <<>> \/ current_ratings = <<>> THEN 0
    ELSE LET hist_avg ==
                 Mean([i \in 1..Len(p.historical_stats) |->
                          p.historical_stats[i].avg_rating])
             current_avg == Mean(ToFx(CrValues(current_ratings)))
         IN  Abs(current_avg - hist_avg) \div p.max_rating

\* Platform._calculate_drift, called after the snapshot was appended.
calculate_drift(p, current_ratings) ==
    IF p.historical_stats = <<>> \/ current_ratings = <<>> THEN 0
    ELSE LET hist_avg ==
                 Mean([i \in 1..Len(LastN(p.historical_stats, 5)) |->
                          LastN(p.historical_stats, 5)[i].avg_rating])
             current_avg == Mean(ToFx(CrValues(current_ratings)))
         IN  Abs(current_avg - hist_avg) \div p.max_rating

\* The audit trail Platform.user_ratings[user_id][datetime] = rating.
RecordRatings(user_ratings, current_ratings, t) ==
    [u \in DOMAIN user_ratings \cup CrKeys(current_ratings) |->
        LET old == IF u \in DOMAIN user_ratings THEN user_ratings[u] ELSE <<>>
        IN  IF u \in CrKeys(current_ratings)
            THEN Append(old, <<t, CrGet(current_ratings, u)>>)
            ELSE old]

\* Mutant of update_stats: drift is left unset by an update without ratings.
update_stats_drift_unset(p, difficulty, participation, current_ratings, t) ==
    [p EXCEPT
        !.historical_stats =
            Append(@, [difficulty |-> difficulty,
                       participation |-> participation,
                       avg_rating |-> IF current_ratings # <<>>
                                      THEN Mean(ToFx(CrValues(current_ratings)))
                                      ELSE 0,
                       timestamp |-> t]),
        !.difficulty = Some((difficulty * SCALE) \div p.max_rating),
        !.participation = Some(participation),
        !.drift = IF current_ratings = <<>> THEN None ELSE Some(0),
        !.last_update = Some(t),
        !.user_ratings = RecordRatings(@, current_ratings, t)]

\* Mutant of update_stats: last_update is not set.
update_stats_undated(p, difficulty, participation, current_ratings, t) ==
    LET snapshot ==
            [difficulty |-> difficulty,
             participation |-> participation,
             avg_rating |-> IF current_ratings # <<>>
                            THEN Mean(ToFx(CrValues(current_ratings)))
                            ELSE 0,
             timestamp |-> t]
        appended == [p EXCEPT !.historical_stats = Append(@, snapshot)]
    IN  [appended EXCEPT
            !.difficulty = Some((difficulty * SCALE) \div p.max_rating),
            !.participation = Some(participation),
            !.drift = Some(calculate_drift(appended, current_ratings)),
            !.user_ratings = RecordRatings(@, current_ratings, t)]

\* Mutant of update_stats: the history keeps only its 5 most recent
\* snapshots.
update_stats_bounded_history(p, difficulty, participation, current_ratings, t) ==
    LET snapshot ==
            [difficulty |-> difficulty,
             participation |-> participation,
             avg_rating |-> IF current_ratings # <<>>
                            THEN Mean(ToFx(CrValues(current_ratings)))
                            ELSE 0,
             timestamp |-> t]
        appended == [p EXCEPT !.historical_stats = LastN(Append(@, snapshot), 5)]
    IN  [appended EXCEPT
            !.difficulty = Some((difficulty * SCALE) \div p.max_rating),
            !.participation = Some(participation),
            !.drift = Some(calculate_drift(appended, current_ratings)),
            !.last_update = Some(t),
            !.user_ratings = RecordRatings(@, current_ratings, t)]

\* Platform.update_stats
update_stats(p, difficulty, participation, current_ratings, t) ==
    LET snapshot ==
            [difficulty |-> difficulty,
             participation |-> participation,
             avg_rating |-> IF current_ratings # <<>>
                            THEN Mean(ToFx(CrValues(current_ratings)))
                            ELSE 0,
             timestamp |-> t]
        appended == [p EXCEPT !.historical_stats = Append(@, snapshot)]
    IN  [appended EXCEPT
            !.difficulty = Some((difficulty * SCALE) \div p.max_rating),
            !.participation = Some(participation),
            !.drift = Some(calculate_drift(appended, current_ratings)),
            !.last_update = Some(t),
            !.user_ratings = RecordRatings(@, current_ratings, t)]

\* class User
NewUser(user_id) ==
    [user_id |-> user_id,
     platform_ratings |-> << >>,
     completed_courses |-> << >>,
     unified_rating |-> 0,
     course_bonus |-> 0,
     total_rating |-> 0]

----------------------------------------------------------------------------
\* class UnifiedRankingSystem

\* add_user, applied to the users dict.
add_user(us, user_id) == [u \in DOMAIN us \cup {user_id} |->
                             IF u = user_id THEN NewUser(user_id) ELSE us[u]]

\* Mutant of AttributeRatings: a listed user's platform_ratings is rebound to
\* the one new rating.
AttributeRatings_rebinds(us, platform_name, current_ratings) ==
    [u \in DOMAIN us \cup CrKeys(current_ratings) |->
        LET user == IF u \in DOMAIN us THEN us[u] ELSE add_user(us, u)[u]
        IN  IF u \in CrKeys(current_ratings)
            THEN [user EXCEPT !.platform_ratings =
                    [q \in {platform_name} |-> CrGet(current_ratings, u)]]
            ELSE user]

\* The loop of update_platform_stats over current_ratings.items(): unknown
\* users are created, and each listed user's rating on the platform is set.
AttributeRatings(us, platform_name, current_ratings) ==
    [u \in DOMAIN us \cup CrKeys(current_ratings) |->
        LET user == IF u \in DOMAIN us THEN us[u] ELSE add_user(us, u)[u]
        IN  IF u \in CrKeys(current_ratings)
            THEN [user EXCEPT !.platform_ratings =
                    [q \in DOMAIN @ \cup {platform_name} |->
                        IF q = platform_name
                        THEN CrGet(current_ratings, u) ELSE @[q]]]
            ELSE user]

\* The insertion order of the users dict after that loop.
AttributeOrder(order, current_ratings) ==
    order \o SelectSeq([i \in 1..Len(current_ratings) |-> current_ratings[i][1]],
                       LAMBDA u : \A j \in 1..Len(order) : order[j] # u)

\* _calculate_weights, first loop: the platforms given a raw weight.
HasStats(p) == ~(IsNone(p.difficulty) \/ IsNone(p.participation) \/ IsNone(p.drift))

raw_weight(p) ==
    (alpha * Val(p.difficulty) + beta * Val(p.participation)
        + gamma * Val(p.drift)) \div SCALE

RawWeights(plats) ==
    [n \in {m \in DOMAIN plats : HasStats(plats[m])} |-> raw_weight(plats[n])]

\* Mutant of Softmax: the denominator sums the raw weights, not their
\* exponentials.
Softmax_raw_sum(raw) ==
    LET exp_weights == [n \in DOMAIN raw |-> MathExp(raw[n])]
        total == SumFn(raw, DOMAIN raw)
        sum_exp == IF total = 0 THEN 1 ELSE total
    IN  [n \in DOMAIN raw |-> (exp_weights[n] * SCALE) \div sum_exp]

\* _calculate_weights, softmax: exp(w) / (sum of exp(w) or an epsilon).
Softmax(raw) ==
    LET exp_weights == [n \in DOMAIN raw |-> MathExp(raw[n])]
        total == SumFn(exp_weights, DOMAIN raw)
        sum_exp == IF total = 0 THEN 1 ELSE total
    IN  [n \in DOMAIN raw |-> (exp_weights[n] * SCALE) \div sum_exp]

\* _calculate_weights, second loop: the platforms given a final weight.
Dated(plats) == {n \in DOMAIN plats : ~IsNone(plats[n].last_update)}

\* Mutant of final_weight: the exponent of the decay has the wrong sign.
final_weight_growth(p, softmax, t) ==
    (softmax[p.name]
        * MathExp(decay_lambda * Days(t, Val(p.last_update)))) \div SCALE

\* Mutant of final_weight: the age is the elapsed time, not its whole days.
final_weight_elapsed_time(p, softmax, t) ==
    (softmax[p.name]
        * MathExp(-(decay_lambda * (t - Val(p.last_update))))) \div SCALE

final_weight(p, softmax, t) ==
    (softmax[p.name]
        * MathExp(-(decay_lambda * Days(t, Val(p.last_update))))) \div SCALE

\* _calculate_weights: the three weight maps, and the exception it ends with
\* (KeyError when a dated platform has no softmax weight; the final weights
\* are then those assigned before the failing lookup).
calculate_weights(plats, t) ==
    LET raw == RawWeights(plats)
        softmax == Softmax(raw)
        missing == Dated(plats) \ DOMAIN softmax
    IN  [raw_weights |-> raw,
         softmax_weights |-> softmax,
         final_weights |-> [n \in Dated(plats) \cap DOMAIN softmax |->
                               final_weight(plats[n], softmax, t)],
         raised |-> IF missing = {} THEN "" ELSE "KeyError"]

\* The user's stored ratings on the platforms other than platform_name.
OtherRatings(user, platform_name) ==
    LET S == DOMAIN user.platform_ratings \ {platform_name}
    IN  [q \in S |-> user.platform_ratings[q] * SCALE]

\* Mutant of impute_missing_rating: the platform's history is preferred to the
\* user's own ratings.
impute_missing_rating_history_first(user, platform_name, plats) ==
    LET valid_ratings == OtherRatings(user, platform_name)
        platform == plats[platform_name]
        recent == LastN(platform.historical_stats, 3)
    IN  IF platform.historical_stats # <<>>
        THEN Mean([i \in 1..Len(recent) |-> recent[i].avg_rating])
        ELSE IF DOMAIN valid_ratings # {}
        THEN SumFn(valid_ratings, DOMAIN valid_ratings)
                 \div Cardinality(DOMAIN valid_ratings)
        ELSE (platform.max_rating * SCALE) \div 2

\* _impute_missing_rating
impute_missing_rating(user, platform_name, plats) ==
    LET valid_ratings == OtherRatings(user, platform_name)
        platform == plats[platform_name]
        recent == LastN(platform.historical_stats, 3)
    IN  IF DOMAIN valid_ratings # {}
        THEN SumFn(valid_ratings, DOMAIN valid_ratings)
                 \div Cardinality(DOMAIN valid_ratings)
        ELSE IF platform.historical_stats # <<>>
        THEN Mean([i \in 1..Len(recent) |-> recent[i].avg_rating])
        ELSE (platform.max_rating * SCALE) \div 2

\* The rating _update_all_ratings uses for one user on one weighted platform.
RatingOn(user, platform_name, plats) ==
    IF platform_name \in DOMAIN user.platform_ratings
    THEN user.platform_ratings[platform_name] * SCALE
    ELSE impute_missing_rating(user, platform_name, plats)

\* Mutant of UnifiedRating: the weighted sum is averaged over all registered
\* platforms, the never-updated ones counting as weight 1 and rating 0.
UnifiedRating_all_registered(user, final, plats) ==
    LET weighted == [n \in DOMAIN final |-> final[n] * RatingOn(user, n, plats)]
        unified_rating == SumFn(weighted, DOMAIN final)
        total_weight == SumFn(final, DOMAIN final)
                            + SCALE * Cardinality(DOMAIN plats \ DOMAIN final)
    IN  IF total_weight > 0 THEN unified_rating \div total_weight ELSE 0

\* The body of _update_all_ratings for one user.
UnifiedRating(user, final, plats) ==
    LET weighted == [n \in DOMAIN final |-> final[n] * RatingOn(user, n, plats)]
        unified_rating == SumFn(weighted, DOMAIN final)
        total_weight == SumFn(final, DOMAIN final)
    IN  IF total_weight > 0 THEN unified_rating \div total_weight ELSE 0

\* Mutant of update_all_ratings: total_rating is not refreshed.
update_all_ratings_stale_total(us, final, plats) ==
    [u \in DOMAIN us |->
        [us[u] EXCEPT !.unified_rating = UnifiedRating(us[u], final, plats)]]

\* _update_all_ratings
update_all_ratings(us, final, plats) ==
    [u \in DOMAIN us |->
        LET r == UnifiedRating(us[u], final, plats)
        IN  [us[u] EXCEPT !.unified_rating = r, !.total_rating = r]]

\* sorted(users.values(), key=lambda u: -u.total_rating): a stable sort of
\* the users in insertion order.
\* Mutant of InsertSorted: the sort key is total_rating, not its negation.
RECURSIVE InsertSorted_ascending(_, _, _)
InsertSorted_ascending(sorted, u, us) ==
    IF sorted = <<>> THEN <<u>>
    ELSE IF us[Head(sorted)].total_rating <= us[u].total_rating
         THEN <<Head(sorted)>> \o InsertSorted_ascending(Tail(sorted), u, us)
         ELSE <<u>> \o sorted

RECURSIVE InsertSorted(_, _, _)
InsertSorted(sorted, u, us) ==
    IF sorted = <<>> THEN <<u>>
    ELSE IF -us[Head(sorted)].total_rating <= -us[u].total_rating
         THEN <<Head(sorted)>> \o InsertSorted(Tail(sorted), u, us)
         ELSE <<u>> \o sorted

RECURSIVE SortedUsers(_, _)
SortedUsers(order, us) ==
    IF order = <<>> THEN <<>>
    ELSE InsertSorted(SortedUsers(SubSeq(order, 1, Len(order) - 1), us),
                      order[Len(order)], us)

\* The tuples get_rankings builds, before truncation.
Rankings(order, us) ==
    LET sorted_users == SortedUsers(order, us)
    IN  [i \in 1..Len(sorted_users) |->
            <<us[sorted_users[i]].user_id,
              us[sorted_users[i]].unified_rating,
              us[sorted_users[i]].course_bonus,
              us[sorted_users[i]].total_rating>>]

\* rankings[:n] of Python.
Slice(s, n) ==
    IF n >= 0 THEN SubSeq(s, 1, Min(n, Len(s)))
    ELSE SubSeq(s, 1, Max(Len(s) + n, 0))

\* rankings[:top_n] if top_n else rankings
Truncate(rankings, top_n) ==
    IF ~IsNone(top_n) /\ Val(top_n) # 0 THEN Slice(rankings, Val(top_n))
    ELSE rankings

----------------------------------------------------------------------------
\* The last call made on the engine and how it ended.
Call(op, platform_name, top_n, raised, returned) ==
    [op |-> op, platform_name |-> platform_name, top_n |-> top_n,
     raised |-> raised, returned |-> returned]

Init ==
    /\ platforms = << >>
    /\ users = << >>
    /\ user_order = << >>
    /\ raw_weights = << >>
    /\ softmax_weights = << >>
    /\ final_weights = << >>
    /\ now = 0
    /\ fp = None
    /\ call = Call("__init__", "", None, "", <<>>)

\* Mutant of add_platform: the platforms dict is rebound to the new platform.
add_platform_rebinds(platform_name, max_rating) ==
    /\ now < MaxTime
    /\ now' = now + 1
    /\ UNCHANGED fp
    /\ platforms' = [n \in {platform_name} |->
                        NewPlatform(platform_name, max_rating)]
    /\ call' = Call("add_platform", platform_name, None, "", <<>>)
    /\ UNCHANGED <<users, user_order, raw_weights, softmax_weights,
                   final_weights>>

\* Mutant of add_platform: the users' ratings on a platform that is
\* registered again are forgotten with it.
add_platform_forgets_ratings(platform_name, max_rating) ==
    /\ now < MaxTime
    /\ now' = now + 1
    /\ UNCHANGED fp
    /\ platforms' = [n \in DOMAIN platforms \cup {platform_name} |->
                        IF n = platform_name
                        THEN NewPlatform(platform_name, max_rating)
                        ELSE platforms[n]]
    /\ users' = [u \in DOMAIN users |->
                    [users[u] EXCEPT !.platform_ratings =
                        [q \in DOMAIN @ \ {platform_name} |-> @[q]]]]
    /\ call' = Call("add_platform", platform_name, None, "", <<>>)
    /\ UNCHANGED <<user_order, raw_weights, softmax_weights, final_weights>>

add_platform(platform_name, max_rating) ==
    /\ now < MaxTime
    /\ now' = now + 1
    /\ UNCHANGED fp
    /\ platforms' = [n \in DOMAIN platforms \cup {platform_name} |->
                        IF n = platform_name
                        THEN NewPlatform(platform_name, max_rating)
                        ELSE platforms[n]]
    /\ call' = Call("add_platform", platform_name, None, "", <<>>)
    /\ UNCHANGED <<users, user_order, raw_weights, softmax_weights,
                   final_weights>>

\* Mutant of UpdateKnownPlatform: only the users listed in current_ratings
\* are recomputed.
UpdateKnownPlatform_affected_only(platform_name, difficulty, participation, current_ratings) ==
    LET plats == [platforms EXCEPT ![platform_name] =
                     update_stats(@, difficulty, participation,
                                  current_ratings, now)]
        attributed == AttributeRatings(users, platform_name, current_ratings)
        w == calculate_weights(plats, now)
        recomputed == update_all_ratings(attributed, w.final_weights, plats)
    IN  /\ platforms' = plats
        /\ user_order' = AttributeOrder(user_order, current_ratings)
        /\ raw_weights' = w.raw_weights
        /\ softmax_weights' = w.softmax_weights
        /\ final_weights' = w.final_weights
        /\ users' = [u \in DOMAIN attributed |->
                        IF u \in CrKeys(current_ratings)
                        THEN recomputed[u] ELSE attributed[u]]
        /\ call' = Call("update_platform_stats", platform_name, None,
                        w.raised, <<>>)

\* The engine state as one record.
EngineState ==
    [platforms |-> platforms, users |-> users, user_order |-> user_order,
     raw_weights |-> raw_weights, softmax_weights |-> softmax_weights,
     final_weights |-> final_weights]

\* update_platform_stats once the platform is known to be registered, as a
\* function of the engine state e and the clock reading t:
\* Platform.update_stats, the loop over current_ratings, _calculate_weights
\* and _update_all_ratings.
Updated(e, platform_name, difficulty, participation, current_ratings, t) ==
    LET plats == [e.platforms EXCEPT ![platform_name] =
                     update_stats(@, difficulty, participation,
                                  current_ratings, t)]
        attributed == AttributeRatings(e.users, platform_name, current_ratings)
        w == calculate_weights(plats, t)
    IN  [platforms |-> plats,
         user_order |-> AttributeOrder(e.user_order, current_ratings),
         raw_weights |-> w.raw_weights,
         softmax_weights |-> w.softmax_weights,
         final_weights |-> w.final_weights,
         users |-> IF w.raised = ""
                   THEN update_all_ratings(attributed, w.final_weights, plats)
                   ELSE attributed,
         raised |-> w.raised]

UpdateKnownPlatform(platform_name, difficulty, participation, current_ratings) ==
    LET e == Updated(EngineState, platform_name, difficulty, participation,
                     current_ratings, now)
    IN  /\ platforms' = e.platforms
        /\ user_order' = e.user_order
        /\ raw_weights' = e.raw_weights
        /\ softmax_weights' = e.softmax_weights
        /\ final_weights' = e.final_weights
        /\ users' = e.users
        /\ call' = Call("update_platform_stats", platform_name, None,
                        e.raised, <<>>)

\* Mutant of update_platform_stats: the ratings are attributed to the users
\* before the platform is looked up.
update_platform_stats_late_check(platform_name, difficulty, participation, current_ratings) ==
    /\ now < MaxTime
    /\ now' = now + 1
    /\ UNCHANGED fp
    /\ IF platform_name \notin DOMAIN platforms
       THEN /\ users' = AttributeRatings(users, platform_name, current_ratings)
            /\ user_order' = AttributeOrder(user_order, current_ratings)
            /\ call' = Call("update_platform_stats", platform_name, None,
                            "ValueError", <<>>)
            /\ UNCHANGED <<platforms, raw_weights, softmax_weights,
                           final_weights>>
       ELSE UpdateKnownPlatform(platform_name, difficulty, participation,
                                current_ratings)

update_platform_stats(platform_name, difficulty, participation, current_ratings) ==
    /\ now < MaxTime
    /\ now' = now + 1
    /\ UNCHANGED fp
    /\ IF platform_name \notin DOMAIN platforms
       THEN /\ call' = Call("update_platform_stats", platform_name, None,
                            "ValueError", <<>>)
            /\ UNCHANGED engine
       ELSE UpdateKnownPlatform(platform_name, difficulty, participation,
                                current_ratings)

get_rankings(top_n) ==
    /\ now < MaxTime
    /\ now' = now + 1
    /\ UNCHANGED fp
    /\ call' = Call("get_rankings", "", top_n, "",
                    Truncate(Rankings(user_order, users), top_n))
    /\ UNCHANGED engine

\* Time passes between two calls.
Tick ==
    /\ now < MaxTime
    /\ now' = now + 1
    /\ UNCHANGED fp
    /\ UNCHANGED <<engine, call>>

TopNs == {None} \cup {Some(n) : n \in 0..MaxTopN}

Next ==
    \/ \E r \in Registrations : add_platform(r[1], r[2])
    \/ \E n \in PlatformNames, c \in Contests, cr \in CurrentRatings :
           update_platform_stats(n, c[1], c[2], cr)
    \/ \E t \in TopNs : get_rankings(t)
    \/ Tick

Spec == Init /\ [][Next]_vars

\* run() of main.py: the engine is constructed and every platform is
\* registered before the first update.
InitRegistered ==
    /\ platforms = [n \in PlatformNames |->
                       NewPlatform(n, (CHOOSE r \in Registrations : r[1] = n)[2])]
    /\ users = << >>
    /\ user_order = << >>
    /\ raw_weights = << >>
    /\ softmax_weights = << >>
    /\ final_weights = << >>
    /\ now = 0
    /\ fp = None
    /\ call = Call("add_platform", "C", None, "", <<>>)

SpecRegistered == InitRegistered /\ [][Next]_vars

\* RankingSystemAPI.add_platform_rating of new.py, wrapping this engine: the
\* user is created, then the platform is looked up; every exception is
\* caught and turned into a failure result, here (success, exception).  The
\* engine has no db attribute, so that the call on a registered platform
\* ends in an AttributeError after the rating was stored.
add_platform_rating(user_id, platform, rating) ==
    LET added == IF user_id \notin DOMAIN users
                 THEN add_user(users, user_id) ELSE users
    IN  /\ now < MaxTime
        /\ now' = now + 1
        /\ UNCHANGED fp
        /\ user_order' = IF user_id \notin DOMAIN users
                         THEN Append(user_order, user_id) ELSE user_order
        /\ IF platform \notin DOMAIN platforms
           THEN /\ users' = added
                /\ call' = Call("add_platform_rating", platform, None, "",
                                <<FALSE, "ValueError">>)
           ELSE /\ users' = [added EXCEPT ![user_id].platform_ratings =
                                [q \in DOMAIN @ \cup {platform} |->
                                    IF q = platform THEN rating ELSE @[q]]]
                /\ call' = Call("add_platform_rating", platform, None, "",
                                <<FALSE, "AttributeError">>)
        /\ UNCHANGED <<platforms, raw_weights, softmax_weights, final_weights>>

\* The engine used through the API as well.
NextAPI ==
    \/ Next
    \/ \E a \in RatingItems, n \in PlatformNames :
           add_platform_rating(a[1], n, a[2])

SpecAPI == Init /\ [][NextAPI]_vars

\* A platform with a long history: the engine after add_platform for A and
\* B and one update of A, at consecutive ticks ending at t, per element of
\* crs.
RECURSIVE Replay(_, _)
Replay(crs, t) ==
    IF crs = <<>>
    THEN [platforms |-> [n \in {"A", "B"} |->
                            NewPlatform(n, (CHOOSE r \in Registrations : r[1] = n)[2])],
          users |-> << >>, user_order |-> << >>, raw_weights |-> << >>,
          softmax_weights |-> << >>, final_weights |-> << >>, raised |-> ""]
    ELSE Updated(Replay(SubSeq(crs, 1, Len(crs) - 1), t - 1), "A",
                 2, SCALE \div 2, crs[Len(crs)], t)

\* The current_ratings of the replayed updates.
DeepRatings == {<< <<"u1", 1>> >>, << <<"u1", 3>> >>}

\* The clock reading two calls before the end of the model's time.
DeepStart == MaxTime - 2

InitDeep ==
    \E k \in 0..MaxHistory, idle \in {0, 1} :
        \E crs \in [1..k -> DeepRatings] :
            LET e == Replay(crs, DeepStart - 1 - idle)
            IN  /\ platforms = e.platforms
                /\ users = e.users
                /\ user_order = e.user_order
                /\ raw_weights = e.raw_weights
                /\ softmax_weights = e.softmax_weights
                /\ final_weights = e.final_weights
                /\ now = DeepStart
                /\ fp = None
                /\ call = IF k = 0
                          THEN Call("add_platform", "B", None, "", <<>>)
                          ELSE Call("update_platform_stats", "A", None, "", <<>>)

\* The updates that follow.
NextDeep ==
    \E n \in {"A", "B"}, c \in Contests, cr \in CurrentRatings :
        update_platform_stats(n, c[1], c[2], cr)

SpecDeep == InitDeep /\ [][NextDeep]_vars

----------------------------------------------------------------------------
\* Binary floating point.  The fixed-point arithmetic above rounds a result
\* to a multiple of 1/SCALE; a Python float keeps a fixed number of
\* significant bits instead, so that weight * rating is rounded even for an
\* integer rating.  Here a float is a natural number n, standing for
\* n / 2^GridBits, with at most Precision significant bits, and every
\* operation returns the float nearest to the exact result, ties to even.
One == 2^GridBits

RECURSIVE BitLen(_)
BitLen(n) == IF n = 0 THEN 0 ELSE 1 + BitLen(n \div 2)

\* The float nearest to n / 2^guard, or to a number just above it if inexact.
Nearest(n, inexact, guard) ==
    LET shift == Max(BitLen(n) - Precision, guard)
        q == 2^shift
        base == n \div q
        rest == n % q
        up == \/ 2 * rest > q
              \/ 2 * rest = q /\ (inexact \/ base % 2 = 1)
    IN  ((base + IF up THEN 1 ELSE 0) * q) \div 2^guard

FloatAdd(a, b) == Nearest(a + b, FALSE, 0)
FloatMul(a, b) == Nearest(a * b, FALSE, GridBits)
FloatDiv(a, b) ==
    LET n == a * 2^(GridBits + 2)
    IN  Nearest(n \div b, n % b # 0, 2)
FloatOfInt(k) == k * One

\* sum() and np.sum of a list, left to right.
RECURSIVE FloatSum(_)
FloatSum(s) ==
    IF s = <<>> THEN 0
    ELSE FloatAdd(FloatSum(SubSeq(s, 1, Len(s) - 1)), s[Len(s)])

\* np.mean of a non-empty list.
FloatMean(s) == FloatDiv(FloatSum(s), FloatOfInt(Len(s)))

\* The platforms, in the order of the platforms dict of main.py.
PlatformOrder == <<"A", "B", "C">>

\* _calculate_weights for platforms all updated the same day, given the
\* exponentials of their raw weights: the softmax, times exp(-0.0) = 1.0.
FloatFinalWeights(exp_weights) ==
    LET sum_exp == FloatSum(exp_weights)
    IN  [i \in 1..Len(exp_weights) |->
            FloatMul(FloatDiv(exp_weights[i], sum_exp), One)]

\* Mutant of FloatImpute: a missing rating counts as 0.
FloatImpute_zero(platform_ratings, platform_name) == 0

\* _impute_missing_rating for a user with ratings on other platforms.
FloatImpute(platform_ratings, platform_name) ==
    LET others == SelectSeq(PlatformOrder,
                      LAMBDA q : q # platform_name /\ q \in DOMAIN platform_ratings)
    IN  FloatMean([i \in 1..Len(others) |-> FloatOfInt(platform_ratings[others[i]])])

\* The body of _update_all_ratings for one user, in floats.
FloatUnifiedRating(platform_ratings, weights) ==
    LET rating(i) == IF PlatformOrder[i] \in DOMAIN platform_ratings
                     THEN FloatOfInt(platform_ratings[PlatformOrder[i]])
                     ELSE FloatImpute(platform_ratings, PlatformOrder[i])
        unified_rating == FloatSum([i \in 1..Len(weights) |->
                                       FloatMul(weights[i], rating(i))])
        total_weight == FloatSum(weights)
    IN  IF total_weight > 0 THEN FloatDiv(unified_rating, total_weight) ELSE 0

\* The floats of [1, 2): exponentials of raw weights in [0, ln 2).
FloatExps ==
    {m * 2^(GridBits - Precision + 1) : m \in 2^(Precision - 1)..(2^Precision - 1)}

\* exp(raw weight) of two or three weighted platforms.
ExpWeights ==
    {<<a, b>> : a \in FloatExps, b \in FloatExps}
        \cup {<<a, b, One>> : a \in FloatExps, b \in FloatExps}

\* The stored ratings of one user.
StoredRatings ==
    {[n \in {"A"} |-> 3], [n \in {"B"} |-> 3], [n \in {"C"} |-> 1],
     [n \in {"A", "B"} |-> IF n = "A" THEN 1 ELSE 3],
     [n \in {"A", "C"} |-> IF n = "A" THEN 3 ELSE 1]}

InitFloat ==
    /\ platforms = << >>
    /\ users = << >>
    /\ user_order = << >>
    /\ raw_weights = << >>
    /\ softmax_weights = << >>
    /\ final_weights = << >>
    /\ now = 0
    /\ call = Call("__init__", "", None, "", <<>>)
    /\ \E e \in ExpWeights, r \in StoredRatings :
           fp = Some([final_weights |-> FloatFinalWeights(e),
                      platform_ratings |-> r,
                      unified_rating |-> None])

\* _update_all_ratings for that user.
update_all_ratings_float ==
    /\ ~IsNone(fp)
    /\ IsNone(Val(fp).unified_rating)
    /\ fp' = Some([Val(fp) EXCEPT !.unified_rating =
                      Some(FloatUnifiedRating(Val(fp).platform_ratings,
                                              Val(fp).final_weights))])
    /\ UNCHANGED <<engine, now, call>>

SpecFloat == InitFloat /\ [][update_all_ratings_float]_vars

----------------------------------------------------------------------------
\* Properties.

\* The last call was an update_platform_stats that returned.
UpdateReturned == call.op = "update_platform_stats" /\ call.raised = ""

\* A platform is ACTIVE: registered, with all its statistics set.
Active(ps, n) ==
    /\ n \in DOMAIN ps
    /\ ~IsNone(ps[n].difficulty)
    /\ ~IsNone(ps[n].participation)
    /\ ~IsNone(ps[n].drift)
    /\ ~IsNone(ps[n].last_update)
    /\ ps[n].historical_stats # <<>>

\* C1: update_platform_stats on a platform name that is not registered
\* raises an error and leaves every piece of engine state (platforms, users,
\* raw, softmax and final weights) exactly as it was.
C1_UnknownPlatformRaises ==
    [][(call'.op = "update_platform_stats"
            /\ call'.platform_name \notin DOMAIN platforms)
        => (call'.raised = "ValueError" /\ engine' = engine)]_vars

C1_Witness ==
    /\ call.op = "update_platform_stats"
    /\ call.raised = "ValueError"
    /\ call.platform_name \notin DOMAIN platforms
    /\ DOMAIN users # {}
    /\ DOMAIN final_weights # {}

\* C2: no registered platform whose last_update is None is a key of
\* final_weights, in every reachable state (re-registration included).
C2_UnupdatedNotWeighted ==
    \A n \in DOMAIN platforms :
        IsNone(platforms[n].last_update) => n \notin DOMAIN final_weights

\* C3 as claimed: once a platform name is ACTIVE, it is ACTIVE ever after.
C3_OneWay ==
    [][\A n \in PlatformNames : Active(platforms, n) => Active(platforms', n)]_vars

\* C3 as amended: an ACTIVE platform stays ACTIVE, and its history does not
\* shrink, through every step that is not add_platform for that same name.
C3_OneWayUntilReadded ==
    [][\A n \in PlatformNames :
          (Active(platforms, n)
              /\ ~(call'.op = "add_platform" /\ call'.platform_name = n))
          => (Active(platforms', n)
              /\ Len(platforms'[n].historical_stats)
                     >= Len(platforms[n].historical_stats))]_vars

C3_Witness ==
    \E n \in DOMAIN platforms, m \in DOMAIN platforms :
        /\ n # m
        /\ Active(platforms, n)
        /\ call.op = "add_platform"
        /\ call.platform_name = m

\* C4: difficulty, participation and drift of a registered platform are all
\* None (and the platform has no history) or all set (and it has history).
C4_StatsAllOrNone ==
    \A n \in DOMAIN platforms :
        LET p == platforms[n]
        IN  \/ /\ IsNone(p.difficulty)
               /\ IsNone(p.participation)
               /\ IsNone(p.drift)
               /\ p.historical_stats = <<>>
            \/ /\ ~IsNone(p.difficulty)
               /\ ~IsNone(p.participation)
               /\ ~IsNone(p.drift)
               /\ p.historical_stats # <<>>

C4_Witness ==
    \E n \in DOMAIN platforms, m \in DOMAIN platforms :
        /\ Active(platforms, n)
        /\ platforms[n].historical_stats[1].avg_rating = 0
        /\ IsNone(platforms[m].difficulty)

\* The mean of the user's stored ratings on the platforms other than n.
MeanOfOtherRatings(user, n) ==
    LET S == DOMAIN user.platform_ratings \ {n}
    IN  SumFn([q \in S |-> user.platform_ratings[q] * SCALE], S) \div Cardinality(S)

\* The weighted mean sum(w * r) / sum(w) over the current final_weights,
\* or 0 if the weights sum to 0.
WeightedMean(r) ==
    LET D == DOMAIN final_weights
        total_weight == SumFn(final_weights, D)
    IN  IF total_weight > 0
        THEN SumFn([n \in D |-> final_weights[n] * r[n]], D) \div total_weight
        ELSE 0

\* C5: when an update has recomputed the ratings, a user without a stored
\* rating on a weighted platform B, but with one on some other platform,
\* was given for B the mean of the stored ratings on the other platforms.
C5_ImputationOrder ==
    UpdateReturned =>
        \A u \in DOMAIN users :
            users[u].unified_rating =
                WeightedMean([n \in DOMAIN final_weights |->
                    IF n \in DOMAIN users[u].platform_ratings
                    THEN users[u].platform_ratings[n] * SCALE
                    ELSE IF DOMAIN users[u].platform_ratings \ {n} # {}
                    THEN MeanOfOtherRatings(users[u], n)
                    ELSE RatingOn(users[u], n, platforms)])

C5_Witness ==
    /\ UpdateReturned
    /\ \E u \in DOMAIN users, B \in DOMAIN final_weights :
        LET recent == LastN(platforms[B].historical_stats, 3)
        IN  /\ B \notin DOMAIN users[u].platform_ratings
            /\ Cardinality(DOMAIN users[u].platform_ratings) = 2
            /\ \E a, c \in DOMAIN users[u].platform_ratings :
                   users[u].platform_ratings[a] # users[u].platform_ratings[c]
            /\ B \in DOMAIN platforms
            /\ recent # <<>>
            /\ Mean([i \in 1..Len(recent) |-> recent[i].avg_rating])
                   # MeanOfOtherRatings(users[u], B)

\* C6: when update_platform_stats returns, the stored unified_rating of
\* every known user is the weighted mean of the user's stored or imputed
\* ratings under the current final_weights.
C6_NoTornState ==
    UpdateReturned =>
        \A u \in DOMAIN users :
            users[u].unified_rating =
                WeightedMean([n \in DOMAIN final_weights |->
                                 RatingOn(users[u], n, platforms)])

C6_Witness ==
    /\ UpdateReturned
    /\ Cardinality(DOMAIN final_weights) = 3
    /\ \E u \in DOMAIN users :
        /\ call.platform_name \notin DOMAIN users[u].platform_ratings
        /\ \E a, c \in DOMAIN users[u].platform_ratings :
               users[u].platform_ratings[a] # users[u].platform_ratings[c]
        /\ users[u].unified_rating % SCALE # 0

\* C7: every user has total_rating = unified_rating + course_bonus, with a
\* course_bonus of 0.
C7_TotalIsUnifiedPlusBonus ==
    \A u \in DOMAIN users :
        /\ users[u].total_rating = users[u].unified_rating + users[u].course_bonus
        /\ users[u].course_bonus = 0

C7_Witness ==
    /\ Cardinality(DOMAIN users) = 2
    /\ \A u \in DOMAIN users : users[u].total_rating > 0
    /\ \E u, v \in DOMAIN users : users[u].total_rating # users[v].total_rating

\* C8: get_rankings() without top_n returns one tuple (user_id,
\* unified_rating, course_bonus, total_rating) per known user, with the
\* user's stored values, in non-increasing order of total_rating, and the
\* call changes no engine state.
C8_RankingsAllUsers ==
    /\ [](call.op = "get_rankings" /\ IsNone(call.top_n) =>
            LET r == call.returned
            IN  /\ Len(r) = Cardinality(DOMAIN users)
                /\ \A u \in DOMAIN users :
                       \E i \in 1..Len(r) :
                           r[i] = <<u, users[u].unified_rating,
                                    users[u].course_bonus,
                                    users[u].total_rating>>
                /\ \A i \in 1..(Len(r) - 1) : r[i][4] >= r[i + 1][4])
    /\ [][call'.op = "get_rankings" => engine' = engine]_vars

C8_Witness ==
    /\ call.op = "get_rankings"
    /\ IsNone(call.top_n)
    /\ Len(call.returned) = 2
    /\ call.returned[1][4] > call.returned[2][4]
    /\ user_order[1] = call.returned[2][1]

\* C9: get_rankings(top_n) with top_n >= 0 given returns the first
\* min(top_n, N) entries of the full ranking.
C9_TruncatesWhenGiven ==
    (call.op = "get_rankings" /\ ~IsNone(call.top_n)) =>
        call.returned =
            SubSeq(Rankings(user_order, users), 1,
                   Min(Val(call.top_n), Cardinality(DOMAIN users)))

\* C10: whenever some platform has a raw weight, the softmax weights of
\* the platforms with a raw weight are strictly positive, each is its
\* exponentiated raw weight over the sum of the exponentiated raw weights,
\* and they sum to 1 (within the rounding of one unit per platform).
C10_SoftmaxSumsToOne ==
    DOMAIN raw_weights # {} =>
        LET D == DOMAIN raw_weights
            sum_exp == SumFn([n \in D |-> MathExp(raw_weights[n])], D)
            total == SumFn(softmax_weights, D)
        IN  /\ DOMAIN softmax_weights = D
            /\ \A n \in D :
                  /\ softmax_weights[n] > 0
                  /\ softmax_weights[n] = (MathExp(raw_weights[n]) * SCALE) \div sum_exp
            /\ total <= SCALE
            /\ total > SCALE - Cardinality(D)

C10_Witness ==
    /\ UpdateReturned
    /\ Cardinality(DOMAIN softmax_weights) = 3
    /\ \A n, m \in DOMAIN softmax_weights :
           n # m => softmax_weights[n] # softmax_weights[m]

\* The clock reading of the last weight recomputation: the last_update of
\* the platform whose update has just returned.
RecomputedAt == Val(platforms[call.platform_name].last_update)

\* C11: after a weight recomputation, every platform p of final_weights has
\* final_weights[p] <= softmax_weights[p], with equality when the whole-day
\* age of p's last_update at the recomputation is 0.
C11_DecayNeverIncreases ==
    UpdateReturned =>
        \A n \in DOMAIN final_weights :
            /\ n \in DOMAIN softmax_weights
            /\ final_weights[n] <= softmax_weights[n]
            /\ Days(RecomputedAt, Val(platforms[n].last_update)) = 0
                   => final_weights[n] = softmax_weights[n]

C11_Witness ==
    /\ UpdateReturned
    /\ \E n, m \in DOMAIN final_weights :
        /\ Days(RecomputedAt, Val(platforms[n].last_update)) >= 1
        /\ final_weights[n] < softmax_weights[n]
        /\ Days(RecomputedAt, Val(platforms[m].last_update)) = 0
        /\ final_weights[m] = softmax_weights[m]

\* The scenario of main.py's first update, with the numbers of the
\* specification: Codeforces (max 3000), difficulty 2100, participation 0.8,
\* {alice: 1500}.
CodeforcesScenario ==
    LET cr == << <<"alice", 1500>> >>
        plats == [n \in {"Codeforces"} |->
                     update_stats(NewPlatform("Codeforces", 3000), 2100,
                                  (8 * SCALE) \div 10, cr, 0)]
        w == calculate_weights(plats, 0)
        us == update_all_ratings(AttributeRatings(<< >>, "Codeforces", cr),
                                 w.final_weights, plats)
    IN  [difficulty |-> plats["Codeforces"].difficulty,
         drift |-> plats["Codeforces"].drift,
         weight |-> w.final_weights["Codeforces"],
         alice |-> us["alice"].unified_rating]

\* C12: when several platforms are registered and only the platform just
\* updated has a last_update, its final weight is 1, the weights do not sum
\* to 0, and every user with a stored rating on it has that rating as
\* unified_rating and is listed with it by get_rankings(); the Codeforces
\* scenario gives difficulty 0.7, drift 0.0, weight 1.0 and alice 1500.
C12_SingleUpdatedPlatform ==
    /\ (/\ UpdateReturned
        /\ Cardinality(DOMAIN platforms) >= 2
        /\ \A m \in DOMAIN platforms \ {call.platform_name} :
               IsNone(platforms[m].last_update))
       => LET n == call.platform_name
          IN  /\ DOMAIN final_weights = {n}
              /\ final_weights[n] = SCALE
              /\ SumFn(final_weights, DOMAIN final_weights) # 0
              /\ \A u \in DOMAIN users :
                    n \in DOMAIN users[u].platform_ratings =>
                        /\ users[u].unified_rating
                               = users[u].platform_ratings[n] * SCALE
                        /\ \E i \in 1..Len(Rankings(user_order, users)) :
                               /\ Rankings(user_order, users)[i][1] = u
                               /\ Rankings(user_order, users)[i][2]
                                      = users[u].platform_ratings[n] * SCALE
    /\ CodeforcesScenario = [difficulty |-> Some((7 * SCALE) \div 10),
                             drift |-> Some(0),
                             weight |-> SCALE,
                             alice |-> 1500 * SCALE]

C12_Witness ==
    /\ UpdateReturned
    /\ Cardinality(DOMAIN platforms) >= 2
    /\ \A m \in DOMAIN platforms \ {call.platform_name} :
           IsNone(platforms[m].last_update)
    /\ \E u, v \in DOMAIN users :
        /\ call.platform_name \in DOMAIN users[u].platform_ratings
        /\ users[u].unified_rating > 0
        /\ call.platform_name \notin DOMAIN users[v].platform_ratings

\* The step is update_platform_stats(n, c[1], c[2], cr) on a registered
\* platform n (the first conjuncts follow from the last one).
UpdateStep(n, c, cr) ==
    /\ n \in DOMAIN platforms
    /\ now' = now + 1
    /\ call'.op = "update_platform_stats"
    /\ call'.platform_name = n
    /\ platforms'[n].historical_stats # <<>>
    /\ platforms'[n].historical_stats[Len(platforms'[n].historical_stats)].difficulty = c[1]
    /\ platforms'[n].user_ratings = RecordRatings(platforms[n].user_ratings, cr, now)
    /\ update_platform_stats(n, c[1], c[2], cr)

\* C13: an update of a platform that had no history before the call, or an
\* update with empty current_ratings, sets the platform's drift to exactly 0.
C13_DriftZeroFirstOrEmpty ==
    [][\A n \in PlatformNames, c \in Contests, cr \in CurrentRatings :
          (UpdateStep(n, c, cr)
              /\ (platforms[n].historical_stats = <<>> \/ cr = <<>>))
          => platforms'[n].drift = Some(0)]_vars

C13_Witness ==
    /\ UpdateReturned
    /\ \E n, m \in DOMAIN platforms :
        LET h == platforms[n].historical_stats
        IN  /\ n = call.platform_name
            /\ Len(h) >= 2
            /\ h[Len(h)].avg_rating = 0
            /\ h[Len(h) - 1].avg_rating > 0
            /\ platforms[n].drift = Some(0)
            /\ Len(platforms[m].historical_stats) = 1
            /\ platforms[m].historical_stats[1].avg_rating > 0
            /\ platforms[m].drift = Some(0)

\* The avg_rating of the snapshots i..j of a history.
AvgRatings(h, i, j) == [x \in 1..(j - i + 1) |-> h[i + x - 1].avg_rating]

\* C14: after an update with non-empty current_ratings the drift is
\* |current_avg - hist_avg| / max_rating, current_avg the mean of the given
\* ratings and hist_avg the mean of avg_rating over the last min(5, len)
\* snapshots of the history that ends with the new snapshot.
C14_DriftFormula ==
    [][\A n \in PlatformNames, c \in Contests, cr \in CurrentRatings :
          (UpdateStep(n, c, cr) /\ cr # <<>>)
          => LET h == platforms'[n].historical_stats
                 k == Min(5, Len(h))
                 hist_avg == Mean(AvgRatings(h, Len(h) - k + 1, Len(h)))
                 current_avg == Mean(ToFx(CrValues(cr)))
             IN  /\ Len(h) = Len(platforms[n].historical_stats) + 1
                 /\ h[Len(h)].avg_rating = current_avg
                 /\ platforms'[n].drift =
                        Some(Abs(current_avg - hist_avg)
                                 \div platforms[n].max_rating)]_vars

C14_Witness ==
    /\ UpdateReturned
    /\ LET p == platforms[call.platform_name]
           h == p.historical_stats
       IN  /\ Len(h) >= 6
           /\ h[Len(h)].avg_rating > 0
           /\ Val(p.drift) > 0
           /\ Val(p.drift) #
                  Abs(h[Len(h)].avg_rating - Mean(AvgRatings(h, 1, Len(h))))
                      \div p.max_rating

\* C15: a successful update_platform_stats(n, d, part, ratings) appends
\* exactly one snapshot (d, part, mean of the ratings or 0 if there are
\* none) to the end of n's history, keeps the earlier snapshots as they
\* were, and changes no other platform.
C15_AppendsOneSnapshot ==
    [][\A n \in PlatformNames, c \in Contests, cr \in CurrentRatings :
          UpdateStep(n, c, cr)
          => /\ platforms'[n].historical_stats =
                    Append(platforms[n].historical_stats,
                           [difficulty |-> c[1],
                            participation |-> c[2],
                            avg_rating |-> IF cr = <<>> THEN 0
                                           ELSE Mean(ToFx(CrValues(cr))),
                            timestamp |-> now])
             /\ DOMAIN platforms' = DOMAIN platforms
             /\ \A m \in DOMAIN platforms \ {n} :
                    platforms'[m] = platforms[m]]_vars

C15_Witness ==
    /\ UpdateReturned
    /\ \E m \in DOMAIN platforms :
        /\ m # call.platform_name
        /\ Len(platforms[m].historical_stats) = 1
        /\ ~IsNone(platforms[m].drift)
        /\ Len(platforms[call.platform_name].historical_stats) >= 6
        /\ Val(platforms[m].last_update)
               < Val(platforms[call.platform_name].last_update)

\* The last call was update_platform_stats(n, c[1], c[2], cr), one tick
\* ago, on a platform n that had no history, and it returned.
JustFirstUpdated(n, c, cr) ==
    /\ UpdateReturned
    /\ call.platform_name = n
    /\ n \in DOMAIN platforms
    /\ platforms[n].historical_stats =
           <<[difficulty |-> c[1],
              participation |-> c[2],
              avg_rating |-> IF cr = <<>> THEN 0 ELSE Mean(ToFx(CrValues(cr))),
              timestamp |-> now - 1]>>
    /\ platforms[n].user_ratings = RecordRatings(<< >>, cr, now - 1)

\* What a repeated identical update leaves as it was.
RepeatedUpdateEffect(n) ==
    /\ platforms[n].drift = Some(0)
    /\ platforms'[n].drift = Some(0)
    /\ final_weights' = final_weights
    /\ DOMAIN users' = DOMAIN users
    /\ \A u \in DOMAIN users :
           users'[u].unified_rating = users[u].unified_rating
    /\ Len(platforms'[n].historical_stats) = 2

\* C16 as claimed: when update_platform_stats is called a second time with
\* the arguments of the call just made on a platform that had no history,
\* the drift is 0 after each call, final_weights and the unified ratings are
\* the same after both, and the history has grown by one, whatever the state
\* of the other platforms.
C16_RepeatedUpdate ==
    [][\A n \in PlatformNames, c \in Contests, cr \in CurrentRatings :
          (JustFirstUpdated(n, c, cr) /\ UpdateStep(n, c, cr))
          => RepeatedUpdateEffect(n)]_vars

\* C16 as amended: the same, when no other platform's last_update gets a
\* whole day older between the two calls.
C16_RepeatedUpdateSameDay ==
    [][\A n \in PlatformNames, c \in Contests, cr \in CurrentRatings :
          (/\ JustFirstUpdated(n, c, cr)
           /\ UpdateStep(n, c, cr)
           /\ \A m \in Dated(platforms) \ {n} :
                  Days(now, Val(platforms[m].last_update))
                      = Days(now - 1, Val(platforms[m].last_update)))
          => RepeatedUpdateEffect(n)]_vars

C16_Witness ==
    /\ UpdateReturned
    /\ LET n == call.platform_name
           h == platforms[n].historical_stats
       IN  /\ Len(h) = 2
           /\ h[2] = [h[1] EXCEPT !.timestamp = @ + 1]
           /\ h[1].avg_rating > 0
           /\ \A u \in DOMAIN platforms[n].user_ratings :
                  /\ Len(platforms[n].user_ratings[u]) = 2
                  /\ platforms[n].user_ratings[u][1][2]
                         = platforms[n].user_ratings[u][2][2]
           /\ platforms[n].drift = Some(0)
           /\ \E m \in Dated(platforms) \ {n} :
                  /\ Days(h[2].timestamp, Val(platforms[m].last_update)) >= 1
                  /\ Days(h[2].timestamp, Val(platforms[m].last_update))
                         = Days(h[1].timestamp, Val(platforms[m].last_update))
                  /\ final_weights[m] < softmax_weights[m]
           /\ \E u \in DOMAIN users : n \notin DOMAIN users[u].platform_ratings

\* users[u].platform_ratings[p], or None when the user or the rating is
\* absent.
StoredRating(us, u, p) ==
    IF u \in DOMAIN us /\ p \in DOMAIN us[u].platform_ratings
    THEN Some(us[u].platform_ratings[p])
    ELSE None

\* C17: the users dict starts empty; a successful update of n with
\* current_ratings cr adds exactly the ids of cr to it and sets exactly the
\* ratings on n of the users cr lists, to the ratings cr gives; every other
\* step (an update that raises, add_platform, re-registration included,
\* get_rankings, the passage of time) leaves the ids and every stored rating
\* as they were.  Hence a user exists iff some successful update listed it,
\* and its rating on p is the one of the latest update of p that listed it.
C17_LastKnownRating ==
    /\ users = << >>
    /\ [][/\ \A n \in PlatformNames, c \in Contests, cr \in CurrentRatings :
                UpdateStep(n, c, cr)
                => /\ DOMAIN users' = DOMAIN users \cup CrKeys(cr)
                   /\ \A u \in UserIds, p \in PlatformNames :
                          StoredRating(users', u, p) =
                              IF p = n /\ u \in CrKeys(cr)
                              THEN Some(CrGet(cr, u))
                              ELSE StoredRating(users, u, p)
          /\ (\A n \in PlatformNames, c \in Contests, cr \in CurrentRatings :
                  ~UpdateStep(n, c, cr))
                => /\ DOMAIN users' = DOMAIN users
                   /\ \A u \in UserIds, p \in PlatformNames :
                          StoredRating(users', u, p) = StoredRating(users, u, p)
         ]_vars

C17_Witness ==
    /\ UpdateReturned
    /\ LET n == call.platform_name
           trail == platforms[n].user_ratings
       IN  \E u, v \in DOMAIN trail :
               /\ Len(trail[u]) = 2
               /\ trail[u][1][2] # trail[u][2][2]
               /\ trail[u][2][1] = RecomputedAt
               /\ users[u].platform_ratings[n] = trail[u][2][2]
               /\ Len(trail[v]) = 1
               /\ trail[v][1][1] < RecomputedAt
               /\ users[v].platform_ratings[n] = trail[v][1][2]
               /\ \E m \in Dated(platforms) :
                      /\ m # n
                      /\ m \notin DOMAIN users[u].platform_ratings

\* C18: RankingSystemAPI.add_platform_rating with a platform that is not
\* registered returns a failure result and leaves the users dict (its ids
\* and every user's platform_ratings) as it was, also for an unknown
\* user_id.
C18_ApiUnknownPlatformNoMutation ==
    [][(call'.op = "add_platform_rating"
            /\ call'.platform_name \notin DOMAIN platforms)
        => (call'.returned[1] = FALSE /\ users' = users)]_vars

\* C19: no call ends in the KeyError of the lookup
\* softmax_weights[platform_name], and when update_platform_stats has
\* returned, raw_weights, softmax_weights and final_weights have one key
\* set, the registered platforms whose last_update is not None, the
\* platform just updated among them.
C19_WeightKeysAreDatedPlatforms ==
    /\ call.raised # "KeyError"
    /\ UpdateReturned =>
           LET D == {n \in DOMAIN platforms : ~IsNone(platforms[n].last_update)}
           IN  /\ DOMAIN raw_weights = D
               /\ DOMAIN softmax_weights = D
               /\ DOMAIN final_weights = D
               /\ call.platform_name \in D

C19_Witness ==
    /\ UpdateReturned
    /\ Cardinality(DOMAIN final_weights) = 1
    /\ \E m \in DOMAIN platforms :
        /\ IsNone(platforms[m].last_update)
        /\ \E u \in DOMAIN users : m \in DOMAIN users[u].platform_ratings

\* The least and the greatest stored rating of the user of fp.
MinStored == CHOOSE x \in {Val(fp).platform_ratings[n] : n \in DOMAIN Val(fp).platform_ratings} :
                 \A n \in DOMAIN Val(fp).platform_ratings : x <= Val(fp).platform_ratings[n]
MaxStored == CHOOSE x \in {Val(fp).platform_ratings[n] : n \in DOMAIN Val(fp).platform_ratings} :
                 \A n \in DOMAIN Val(fp).platform_ratings : x >= Val(fp).platform_ratings[n]

FloatRecomputed == ~IsNone(fp) /\ ~IsNone(Val(fp).unified_rating)

C21_ImputesFromOwnRatings ==
    /\ \A u \in DOMAIN users : DOMAIN users[u].platform_ratings # {}
    /\ \A u \in DOMAIN users :
           \A n \in DOMAIN final_weights \ DOMAIN users[u].platform_ratings :
               /\ DOMAIN OtherRatings(users[u], n) # {}
               /\ impute_missing_rating(users[u], n, platforms)
                      = MeanOfOtherRatings(users[u], n)
    /\ UpdateReturned =>
           \A u \in DOMAIN users :
               users[u].unified_rating =
                   WeightedMean([n \in DOMAIN final_weights |->
                       IF n \in DOMAIN users[u].platform_ratings
                       THEN users[u].platform_ratings[n] * SCALE
                       ELSE MeanOfOtherRatings(users[u], n)])

C21_Witness ==
    /\ UpdateReturned
    /\ \E u \in DOMAIN users :
        /\ DOMAIN users[u].platform_ratings \cap DOMAIN final_weights = {}
        /\ \A m \in DOMAIN users[u].platform_ratings :
               IsNone(platforms[m].last_update)
        /\ \E n \in DOMAIN final_weights :
               LET recent == LastN(platforms[n].historical_stats, 3)
               IN  /\ Mean([i \in 1..Len(recent) |-> recent[i].avg_rating])
                          # MeanOfOtherRatings(users[u], n)
                   /\ (platforms[n].max_rating * SCALE) \div 2
                          # MeanOfOtherRatings(users[u], n)
        /\ users[u].unified_rating > 0

=============================================================================
